---------------------------- MODULE Spec2Model ----------------------------
(***************************************************************************)
(* A model of pathaid-rs: the PATH helpers of src/src/pathops.rs and the   *)
(* subcommands of src/src/main.rs.                                         *)
(*                                                                         *)
(* A string (an OsString, a PathBuf's text) is a sequence of one-character *)
(* strings, all of them valid Unicode.  A HashSet<PathBuf> is a set of     *)
(* texts whose membership test is PathBuf's equality, which compares the   *)
(* paths' components and not their text.  The platform is Unix: the        *)
(* separator is a colon, and split_paths and join_paths know no quoting.   *)
(* The file system is a root directory, which is also the working          *)
(* directory, holding the two names of Nodes, each one missing, a          *)
(* directory, a regular file or a symbolic link to the other name.  It     *)
(* does not change while a subcommand runs.                                *)
(***************************************************************************)
EXTENDS Integers, Sequences, FiniteSets, TLC

VARIABLES
    env,        \* the PATH variable: [set |-> BOOLEAN, val |-> string]
    kind,       \* the file system: what each name of Nodes is
    denied,     \* the directories of Nodes whose listing is denied
    nfiles,     \* the regular files inside each directory of Nodes
    paths,      \* the Vec<PathBuf> handed to a pathops function
    op,         \* the function or subcommand that ran ("none" before it)
    arg,        \* its string argument: the addition, or what split is handed
    ret,        \* a pathops function's return value
    out,        \* a subcommand's standard output, a sequence of lines
    note,       \* the number dedup's note on standard error names (0: no note)
    status      \* a subcommand's end: "ok", or the kind of its error

vars == <<env, kind, denied, nfiles, paths, op, arg, ret, out, note, status>>

-----------------------------------------------------------------------------
(* Bounds *)

\* The longest PATH value of Spec.
MaxRaw == 6
\* The longest PATH value of SpecAdd.
MaxAddRaw == 3
\* The longest addition of SpecAdd.
MaxAdd == 2
\* The longest PATH value and the longest addition of SpecMulti.
MaxMultiRaw == 1
MaxMulti == 3
\* The most entries of a vector of SpecCodec, and the longest entry in it.
MaxEntries == 3
MaxEntryLen == 1
\* The longest PATH value of SpecScan.
MaxScanRaw == 3
\* The most regular files inside a directory.
MaxFiles == 1

-----------------------------------------------------------------------------
(* Strings *)

Sep == ":"
Slash == "/"
Letter == "a"
Char == {Letter, Slash, Sep}

StrUpTo(chars, n) == UNION {[1..k -> chars] : k \in 0..n}

RECURSIVE IndexOf(_, _, _)
\* The first position >= i of s that holds c, or 0.
IndexOf(s, c, i) ==
    IF i > Len(s) THEN 0
    ELSE IF s[i] = c THEN i
    ELSE IndexOf(s, c, i + 1)

HasSep(s) == IndexOf(s, Sep, 1) # 0

Ok(v) == [ok |-> TRUE, val |-> v]
Err(e) == [ok |-> FALSE, val |-> e]

-----------------------------------------------------------------------------
(* std::env::split_paths and join_paths, as pathops.rs calls them *)

RECURSIVE split(_)
\* Every separator ends an entry: n separators make n + 1 entries, the empty
\* string one empty entry.
split(path_var) ==
    LET i == IndexOf(path_var, Sep, 1) IN
    IF i = 0 THEN <<path_var>>
    ELSE <<SubSeq(path_var, 1, i - 1)>>
             \o split(SubSeq(path_var, i + 1, Len(path_var)))

RECURSIVE JoinText(_)
JoinText(ps) ==
    IF ps = <<>> THEN <<>>
    ELSE IF Len(ps) = 1 THEN ps[1]
    ELSE ps[1] \o <<Sep>> \o JoinText(Tail(ps))

\* A join that ends every entry with the separator.
join_terminated(ps) ==
    IF \E i \in 1..Len(ps) : HasSep(ps[i])
    THEN Err("JoinError")
    ELSE Ok(IF ps = <<>> THEN <<>> ELSE JoinText(ps) \o <<Sep>>)

\* join_paths fails on an entry that holds the separator.
join(ps) ==
    IF \E i \in 1..Len(ps) : HasSep(ps[i])
    THEN Err("JoinError")
    ELSE Ok(JoinText(ps))

-----------------------------------------------------------------------------
(* PathBuf: equality is that of the components *)

RECURSIVE Names(_)
\* The normal components of p: its non-empty pieces between slashes, so that
\* repeated and trailing slashes make no difference.
Names(p) ==
    LET i == IndexOf(p, Slash, 1) IN
    IF p = <<>> THEN <<>>
    ELSE IF i = 0 THEN <<p>>
    ELSE IF i = 1 THEN Names(Tail(p))
    ELSE <<SubSeq(p, 1, i - 1)>> \o Names(SubSeq(p, i + 1, Len(p)))

components(p) == [root |-> p # <<>> /\ p[1] = Slash, names |-> Names(p)]

\* PathBuf's ==, and the key of a HashSet<PathBuf>.
PathEq(p, q) == components(p) = components(q)

\* HashSet::contains.
contains(set, p) == \E q \in set : PathEq(q, p)

\* HashSet::insert, which keeps the element it already holds.
insert(set, p) == IF contains(set, p) THEN set ELSE set \cup {p}

\* A vector collected into a HashSet, which keeps the first of equal paths.
collect(ps) ==
    {ps[i] : i \in {k \in 1..Len(ps) :
                       \A j \in 1..(k - 1) : ~PathEq(ps[j], ps[k])}}

-----------------------------------------------------------------------------
(* The file system, as canonicalize, is_dir, is_file and read_dir see it *)

Nodes == {<<Letter>>, <<Letter, Letter>>}
Kinds == {"missing", "dir", "file", "link"}

\* A symbolic link of Nodes points at the other name.
Other(n) == IF n = <<Letter>> THEN <<Letter, Letter>> ELSE <<Letter>>

\* The file or directory the name n of the root directory leads to.
Target(n) ==
    IF n \notin Nodes \/ kind[n] = "missing" THEN Err("ENOENT")
    ELSE IF kind[n] # "link" THEN Ok(n)
    ELSE IF kind[Other(n)] = "missing" THEN Err("ENOENT")
    ELSE IF kind[Other(n)] = "link" THEN Err("ELOOP")
    ELSE Ok(Other(n))

\* Path::canonicalize (realpath): the absolute, link-free path of p, relative
\* paths taken from the working directory, which is the root.  Only the root
\* has sub-directories or links, and a trailing slash asks for a directory.
canonicalize(p) ==
    LET c == components(p)
        t == Target(c.names[1])
    IN  IF p = <<>> THEN Err("ENOENT")
        ELSE IF c.names = <<>> THEN Ok(<<Slash>>)
        ELSE IF ~t.ok THEN t
        ELSE IF Len(c.names) > 1
             THEN IF kind[t.val] = "dir" THEN Err("ENOENT") ELSE Err("ENOTDIR")
        ELSE IF p[Len(p)] = Slash /\ kind[t.val] # "dir" THEN Err("ENOTDIR")
        ELSE Ok(<<Slash>> \o t.val)

\* Path::is_dir and Path::is_file of a canonical path.
is_dir(c) == c = <<Slash>> \/ (Tail(c) \in Nodes /\ kind[Tail(c)] = "dir")
is_file(c) == c # <<Slash>> /\ Tail(c) \in Nodes /\ kind[Tail(c)] = "file"

\* pathops::exists
exists(path) ==
    LET r == canonicalize(path) IN r.ok /\ is_dir(r.val)

\* The match of find_duplicates_resolved, dedup and ensure_unique_addition:
\* the canonical path, or the entry itself when it has none.
resolve(path) ==
    LET r == canonicalize(path) IN IF r.ok THEN r.val ELSE path

\* pathops::count_files: read_dir fails on what is no directory and on a
\* directory whose listing is denied; the entries that resolve to a regular
\* file are counted.
count_files(path) ==
    LET r == canonicalize(path) IN
    IF ~r.ok THEN r
    ELSE IF ~is_dir(r.val) THEN Err("ENOTDIR")
    ELSE IF r.val = <<Slash>>
         THEN Ok(Cardinality({n \in Nodes :
                     /\ canonicalize(<<Slash>> \o n).ok
                     /\ is_file(canonicalize(<<Slash>> \o n).val)}))
    ELSE IF Tail(r.val) \in denied THEN Err("EACCES")
    ELSE Ok(nfiles[Tail(r.val)])

\* pathops::is_empty
is_empty(path) ==
    LET c == count_files(path) IN IF c.ok THEN Ok(c.val = 0) ELSE c

-----------------------------------------------------------------------------
(* pathops.rs: duplicates *)

RECURSIVE FindDuplicatesFrom(_, _, _, _)
FindDuplicatesFrom(ps, i, seen, duplicates) ==
    IF i > Len(ps) THEN duplicates
    ELSE IF contains(seen, ps[i])
         THEN FindDuplicatesFrom(ps, i + 1, seen, Append(duplicates, ps[i]))
         ELSE FindDuplicatesFrom(ps, i + 1, insert(seen, ps[i]), duplicates)

\* A scan that starts at the second entry.
find_duplicates_from_second(ps) == FindDuplicatesFrom(ps, 2, {}, <<>>)

find_duplicates(ps) == FindDuplicatesFrom(ps, 1, {}, <<>>)

RECURSIVE FindDuplicatesResolvedFrom(_, _, _, _)
FindDuplicatesResolvedFrom(ps, i, seen, duplicates) ==
    LET res == resolve(ps[i]) IN
    IF i > Len(ps) THEN duplicates
    ELSE IF contains(seen, res)
         THEN FindDuplicatesResolvedFrom(ps, i + 1, seen, Append(duplicates, res))
         ELSE FindDuplicatesResolvedFrom(ps, i + 1, insert(seen, res), duplicates)

find_duplicates_resolved(ps) == FindDuplicatesResolvedFrom(ps, 1, {}, <<>>)

\* A test that keeps an entry when its text or its resolved form is new.
DedupKeepsEither(path, res, seen, resolved) ==
    ~contains(seen, path) \/ ~contains(resolved, res)

\* The test of dedup's loop: the entry is kept.
DedupKeeps(path, res, seen, resolved) ==
    ~contains(seen, path) /\ ~contains(resolved, res)

\* A loop that pushes the resolved form.
DedupPushedResolved(path, res) == res

\* What dedup's loop pushes for a kept entry.
DedupPushed(path, res) == path

RECURSIVE DedupFrom(_, _, _, _, _)
DedupFrom(ps, i, seen, resolved, unique) ==
    LET path == ps[i]
        res == resolve(path)
    IN  IF i > Len(ps) THEN unique
        ELSE IF DedupKeeps(path, res, seen, resolved)
             THEN DedupFrom(ps, i + 1, insert(seen, path), insert(resolved, res),
                            Append(unique, DedupPushed(path, res)))
             ELSE DedupFrom(ps, i + 1, seen, resolved, unique)

dedup(ps) == DedupFrom(ps, 1, {}, {}, <<>>)

-----------------------------------------------------------------------------
(* pathops.rs: additions *)

\* split_hs
split_hs(path_var) == collect(split(path_var))

\* The canonical paths of the entries that have one.
unique_resolved(unique_paths) ==
    {canonicalize(p).val : p \in {q \in unique_paths : canonicalize(q).ok}}

\* A check of the entries' text alone.
ensure_unique_addition_literal(path_var, addition) ==
    IF contains(split_hs(path_var), addition) THEN Err("AlreadyPresent")
    ELSE Ok("unit")

ensure_unique_addition(path_var, addition) ==
    LET path_to_add == addition
        unique_paths == split_hs(path_var)
        res == resolve(path_to_add)
    IN  IF contains(unique_paths, path_to_add) THEN Err("AlreadyPresent")
        ELSE IF contains(unique_resolved(unique_paths), res)
             THEN IF path_to_add = res
                  THEN Err("AlreadyPresentResolved")
                  ELSE Err("AlreadyPresentResolvedAlias")
        ELSE Ok("unit")

\* An append that leaves out an addition PATH already holds.
append_path_unless_present(path_var, addition) ==
    IF contains(split_hs(path_var), addition) THEN join(split(path_var))
    ELSE join(Append(split(path_var), addition))

append_path(path_var, addition) == join(Append(split(path_var), addition))

prepend_path(path_var, addition) == join(<<addition>> \o split(path_var))

\* The two checks in the other order.
validate_addition_unique_first(path_var, addition) ==
    LET u == ensure_unique_addition(path_var, addition) IN
    IF ~u.ok THEN u
    ELSE IF ~exists(addition) THEN Err("NotADirectory")
    ELSE Ok("unit")

validate_addition(path_var, addition) ==
    IF ~exists(addition) THEN Err("NotADirectory")
    ELSE ensure_unique_addition(path_var, addition)

-----------------------------------------------------------------------------
(* The state before a run *)

FileSystems == [Nodes -> Kinds]

\* PATH is unset, or holds a string of at most n characters.
Environments(n) ==
    {[set |-> FALSE, val |-> <<>>]}
        \cup {[set |-> TRUE, val |-> s] : s \in StrUpTo(Char, n)}

\* Nothing ran yet.
Idle ==
    /\ op = "none"
    /\ arg = <<>>
    /\ ret = <<>>
    /\ out = <<>>
    /\ note = 0
    /\ status = "running"

\* A listable file system with no regular file inside a directory of Nodes.
PlainFiles ==
    /\ denied = {}
    /\ nfiles = [n \in Nodes |-> 0]

\* get_path, of a PATH that is valid Unicode.
get_path == IF env.set THEN Ok(env.val) ELSE Err("EnvironmentVariableMissing")

\* The vector a pathops function is handed: PATH split, or no entry at all.
Init ==
    /\ env \in Environments(MaxRaw)
    /\ kind \in FileSystems
    /\ PlainFiles
    /\ paths = IF env.set THEN split(env.val) ELSE <<>>
    /\ Idle

InitAdd ==
    /\ env \in Environments(MaxAddRaw)
    /\ kind \in FileSystems
    /\ PlainFiles
    /\ paths = <<>>
    /\ Idle

InitMulti ==
    /\ env \in Environments(MaxMultiRaw)
    /\ kind \in FileSystems
    /\ PlainFiles
    /\ paths = <<>>
    /\ Idle

InitCodec ==
    /\ env = [set |-> FALSE, val |-> <<>>]
    /\ kind = [n \in Nodes |-> "missing"]
    /\ PlainFiles
    /\ paths \in UNION {[1..k -> StrUpTo(Char, MaxEntryLen)] : k \in 0..MaxEntries}
    /\ Idle

InitScan ==
    /\ env \in Environments(MaxScanRaw)
    /\ kind \in FileSystems
    /\ denied \in SUBSET {n \in Nodes : kind[n] = "dir"}
    /\ nfiles \in {f \in [Nodes -> 0..MaxFiles] :
                      \A n \in Nodes : kind[n] # "dir" => f[n] = 0}
    /\ paths = <<>>
    /\ Idle

-----------------------------------------------------------------------------
(* Calls of the pathops functions *)

Call(name, argument, value) ==
    /\ op = "none"
    /\ op' = name
    /\ arg' = argument
    /\ ret' = value
    /\ UNCHANGED <<env, kind, denied, nfiles, paths, out, note, status>>

CallFindDuplicates == Call("find_duplicates", <<>>, find_duplicates(paths))

CallFindDuplicatesResolved ==
    Call("find_duplicates_resolved", <<>>, find_duplicates_resolved(paths))

CallDedup == Call("dedup", <<>>, dedup(paths))

CallValidateAddition(addition) ==
    /\ env.set
    /\ Call("validate_addition", addition, validate_addition(env.val, addition))

CallAppendPath(addition) ==
    /\ env.set
    /\ Call("append_path", addition, append_path(env.val, addition))

CallPrependPath(addition) ==
    /\ env.set
    /\ Call("prepend_path", addition, prepend_path(env.val, addition))

\* join of the vector, then split of the string it made.
CallJoin == Call("join", <<>>, join(paths))

CallSplit ==
    /\ op = "join"
    /\ ret.ok
    /\ op' = "split"
    /\ arg' = ret.val
    /\ ret' = split(ret.val)
    /\ UNCHANGED <<env, kind, denied, nfiles, paths, out, note, status>>

-----------------------------------------------------------------------------
(* main.rs: the subcommands *)

\* One printed line: a path, what is said of it, and the number or the second
\* path printed with it.
Line(path, what, n, to) == [path |-> path, what |-> what, n |-> n, to |-> to]

\* How a subcommand ends: its status, its standard output and its note.
End(st, lines, n) == [status |-> st, out |-> lines, note |-> n]

\* The order a HashSet is iterated in is any order.
Orders(set) ==
    {f \in [1..Cardinality(set) -> set] :
        \A i, j \in 1..Cardinality(set) : i # j => f[i] # f[j]}

\* list_paths' line for an entry: plain, one that resolves elsewhere, or one
\* that does not resolve.
ListLine(p) ==
    LET r == canonicalize(p) IN
    IF ~r.ok THEN Line(p, "inaccessible", 0, <<>>)
    ELSE IF r.val = p THEN Line(p, "plain", 0, <<>>)
    ELSE Line(p, "alias", 0, r.val)

list_paths ==
    LET path == get_path
        ps == split(path.val)
    IN  IF ~path.ok THEN {End(path.val, <<>>, 0)}
        ELSE {End("ok", [i \in 1..Len(ps) |-> ListLine(ps[i])], 0)}

RECURSIVE ValidateScan(_, _, _)
\* validate's first loop: the lines printed, and whether is_empty's error ended it.
ValidateScan(ps, i, lines) ==
    LET p == ps[i]
        e == is_empty(p)
    IN  IF i > Len(ps) THEN Ok(lines)
        ELSE IF ~exists(p)
             THEN ValidateScan(ps, i + 1,
                      Append(lines, Line(p, "inaccessible", 0, <<>>)))
        ELSE IF ~e.ok THEN [ok |-> FALSE, val |-> lines]
        ELSE IF e.val
             THEN ValidateScan(ps, i + 1, Append(lines, Line(p, "empty", 0, <<>>)))
        ELSE ValidateScan(ps, i + 1, lines)

\* How often each duplicate is included: its repeats and its first occurrence.
Included(dups, what) ==
    {Line(p, what, Cardinality({k \in 1..Len(dups) : PathEq(dups[k], p)}) + 1, <<>>) :
        p \in collect(dups)}

validate ==
    LET path == get_path
        ps == split(path.val)
        scan == ValidateScan(ps, 1, <<>>)
        dups == Included(find_duplicates(ps), "included")
        resolved_dups == Included(find_duplicates_resolved(ps), "included resolved")
    IN  IF ~path.ok THEN {End(path.val, <<>>, 0)}
        ELSE IF ~scan.ok THEN {End("ProbeError", scan.val, 0)}
        ELSE {End("ok", scan.val \o d \o r, 0) :
                 d \in Orders(dups), r \in Orders(resolved_dups)}

main_dedup ==
    LET path == get_path
        ps == split(path.val)
        resolved_dups == find_duplicates_resolved(ps)
        unique == dedup(ps)
        new_path == join(unique)
    IN  IF ~path.ok THEN {End(path.val, <<>>, 0)}
        ELSE IF ~new_path.ok THEN {End(new_path.val, <<>>, Len(resolved_dups))}
        ELSE {End("ok", <<Line(new_path.val, "value", 0, <<>>)>>, Len(resolved_dups))}

CountLine(p) ==
    LET c == count_files(p) IN
    IF ~c.ok THEN Line(p, "failed", 0, <<>>)
    ELSE IF c.val = 0 THEN Line(p, "empty", 0, <<>>)
    ELSE Line(p, "count", c.val, <<>>)

count_exes ==
    LET path == get_path
        ps == split(path.val)
    IN  IF ~path.ok THEN {End(path.val, <<>>, 0)}
        ELSE {End("ok", [i \in 1..Len(ps) |-> CountLine(ps[i])], 0)}

main_append_path(addition) ==
    LET path == get_path
        v == validate_addition(path.val, addition)
        new_path == append_path(path.val, addition)
    IN  IF ~path.ok THEN {End(path.val, <<>>, 0)}
        ELSE IF ~v.ok THEN {End(v.val, <<>>, 0)}
        ELSE IF ~new_path.ok THEN {End(new_path.val, <<>>, 0)}
        ELSE {End("ok", <<Line(new_path.val, "value", 0, <<>>)>>, 0)}

main_prepend_path(addition) ==
    LET path == get_path
        v == validate_addition(path.val, addition)
        new_path == prepend_path(path.val, addition)
    IN  IF ~path.ok THEN {End(path.val, <<>>, 0)}
        ELSE IF ~v.ok THEN {End(v.val, <<>>, 0)}
        ELSE IF ~new_path.ok THEN {End(new_path.val, <<>>, 0)}
        ELSE {End("ok", <<Line(new_path.val, "value", 0, <<>>)>>, 0)}

\* main: one subcommand runs, and the process ends.
Cmd(name, argument, ends) ==
    /\ op = "none"
    /\ \E e \in ends :
          /\ status' = e.status
          /\ out' = e.out
          /\ note' = e.note
    /\ op' = name
    /\ arg' = argument
    /\ UNCHANGED <<env, kind, denied, nfiles, paths, ret>>

CmdList == Cmd("list", <<>>, list_paths)
CmdValidate == Cmd("validate", <<>>, validate)
CmdDedup == Cmd("dedup", <<>>, main_dedup)
CmdCount == Cmd("count", <<>>, count_exes)
CmdAppend(addition) == Cmd("append", addition, main_append_path(addition))
CmdPrepend(addition) == Cmd("prepend", addition, main_prepend_path(addition))

-----------------------------------------------------------------------------
(* Specifications *)

\* The duplicate functions and the dedup subcommand, on PATH's entries.
Next ==
    \/ CallFindDuplicates
    \/ CallFindDuplicatesResolved
    \/ CallDedup
    \/ CmdDedup

Spec == Init /\ [][Next]_vars

\* The additions.
Additions == StrUpTo(Char, MaxAdd)

NextAdd ==
    \E addition \in Additions :
        \/ CallValidateAddition(addition)
        \/ CallAppendPath(addition)
        \/ CallPrependPath(addition)
        \/ CmdAppend(addition)
        \/ CmdPrepend(addition)

SpecAdd == InitAdd /\ [][NextAdd]_vars

\* The append and prepend subcommands, given longer arguments.
MultiAdditions == StrUpTo(Char, MaxMulti)

NextMulti ==
    \E addition \in MultiAdditions :
        \/ CmdAppend(addition)
        \/ CmdPrepend(addition)

SpecMulti == InitMulti /\ [][NextMulti]_vars

\* The codec.
NextCodec == CallJoin \/ CallSplit

SpecCodec == InitCodec /\ [][NextCodec]_vars

\* The scans.
NextScan == CmdList \/ CmdValidate \/ CmdCount

SpecScan == InitScan /\ [][NextScan]_vars

-----------------------------------------------------------------------------
(* Properties *)

RECURSIVE PickFrom(_, _, _)
PickFrom(seq, S, i) ==
    IF i > Len(seq) THEN <<>>
    ELSE IF i \in S THEN <<seq[i]>> \o PickFrom(seq, S, i + 1)
    ELSE PickFrom(seq, S, i + 1)

\* The entries of seq at the positions S, in seq's order.
Pick(seq, S) == PickFrom(seq, S, 1)

\* How many entries of seq have the text v, and how many are the path v.
Count(seq, v) == Cardinality({i \in 1..Len(seq) : seq[i] = v})
CountPath(seq, v) == Cardinality({i \in 1..Len(seq) : PathEq(seq[i], v)})

\* The positions of seq that repeat the text, or the path, of an earlier one.
Repeats(seq) == {i \in 1..Len(seq) : \E j \in 1..(i - 1) : seq[j] = seq[i]}
PathRepeats(seq) ==
    {i \in 1..Len(seq) : \E j \in 1..(i - 1) : PathEq(seq[j], seq[i])}

\* The entries of PATH, and the string a subcommand printed.
Entries == split(env.val)
Printed == out[1].path

\* C1: the output of dedup holds no two entries of the same text and no two
\* entries of the same resolved form (the canonical path, or the entry itself
\* when it has none).
DedupNoTwoEqual ==
    op = "dedup" =>
        \A i, j \in 1..Len(ret) :
            i # j => ret[i] # ret[j] /\ resolve(ret[i]) # resolve(ret[j])

\* dedup dropped one of two entries that are different paths and resolve alike, and
\* kept two entries.
DedupNoTwoEqualWitness ==
    /\ op = "dedup"
    /\ Len(ret) >= 2
    /\ \E i, j \in 1..Len(paths) :
          /\ i < j
          /\ ~PathEq(paths[i], paths[j])
          /\ resolve(paths[i]) = resolve(paths[j])
          /\ \E k \in 1..Len(ret) : ret[k] = paths[i]
          /\ \A k \in 1..Len(ret) : ret[k] # paths[j]

\* C2: the output of dedup is a subsequence of its input: entries of the
\* input, unchanged and in the input's order, each the first occurrence of
\* its text.
DedupSubsequence ==
    op = "dedup" =>
        \E S \in SUBSET (1..Len(paths)) :
            /\ ret = Pick(paths, S)
            /\ S \cap Repeats(paths) = {}

\* dedup dropped the entry between the two it kept, the second of which has
\* a canonical path that is not its text.
DedupSubsequenceWitness ==
    /\ op = "dedup"
    /\ Len(paths) >= 3
    /\ ret = <<paths[1], paths[3]>>
    /\ canonicalize(paths[3]).ok
    /\ canonicalize(paths[3]).val # paths[3]

DedupNoteCountsDropped ==
    (op = "dedup" /\ status = "ok") =>
        note = Len(Entries) - Len(split(Printed))

AlreadyPresent ==
    {Err("AlreadyPresent"), Err("AlreadyPresentResolved"),
     Err("AlreadyPresentResolvedAlias")}

\* The addition has the text of an entry of PATH.
InPath == \E i \in 1..Len(Entries) : Entries[i] = arg

\* The addition and an entry of PATH have the same canonical path.
ResolvesIntoPath ==
    /\ canonicalize(arg).ok
    /\ \E i \in 1..Len(Entries) : canonicalize(Entries[i]) = canonicalize(arg)

\* C4 as stated: validate_addition fails with AlreadyPresent for every
\* candidate that has the text of an entry and for every candidate that
\* resolves to the canonical path of an entry.
AdditionRejectedAsPresent ==
    (op = "validate_addition" /\ (InPath \/ ResolvesIntoPath)) =>
        ret \in AlreadyPresent

\* C4 amended: validate_addition fails with AlreadyPresent for every candidate
\* that is an existing directory and has the text of an entry or resolves to
\* the canonical path of an entry; a candidate that is no existing directory
\* fails with NotADirectory, in PATH or not.
AdditionRejectedAsPresentIfDirectory ==
    op = "validate_addition" =>
        /\ (exists(arg) /\ (InPath \/ ResolvesIntoPath)) => ret \in AlreadyPresent
        /\ ~exists(arg) => ret = Err("NotADirectory")

\* A directory that is no entry of PATH, as text or as a path, and resolves to
\* the canonical path of an entry was refused.
AdditionRejectedWitness ==
    /\ op = "validate_addition"
    /\ exists(arg)
    /\ \A i \in 1..Len(Entries) : ~PathEq(Entries[i], arg)
    /\ ResolvesIntoPath
    /\ ret = Err("AlreadyPresentResolvedAlias")

\* C5: a scan of list, validate or count ends without an error, and list and
\* count print a line for every entry, whatever the probes of the entries
\* find.
ScanNeverAborts ==
    (op \in {"list", "validate", "count"} /\ env.set) =>
        /\ status = "ok"
        /\ op \in {"list", "count"} => Len(out) = Len(Entries)

\* The candidates of an addition, and what validate_addition says of each.
Candidates == split(arg)
EachValid ==
    \A i \in 1..Len(Candidates) : validate_addition(env.val, Candidates[i]).ok
Unrelated ==
    \A i, j \in 1..Len(Candidates) :
        i # j => /\ ~PathEq(Candidates[i], Candidates[j])
                 /\ resolve(Candidates[i]) # resolve(Candidates[j])

\* C6: an argument of append or prepend that joins several candidates, each
\* of them valid and no two of them the same directory, is split, and every
\* candidate is added to PATH, at the end in the order given or at the front.
SeveralCandidatesAdded ==
    (/\ op \in {"append", "prepend"}
     /\ env.set
     /\ Len(Candidates) >= 2
     /\ EachValid
     /\ Unrelated) =>
        /\ status = "ok"
        /\ out # <<>>
        /\ Len(split(Printed)) = Len(Entries) + Len(Candidates)
        /\ op = "append" => Printed = env.val \o <<Sep>> \o arg
        /\ op = "prepend" =>
              \A i \in 1..Len(Candidates) :
                  \E k \in 1..Len(Candidates) : split(Printed)[k] = Candidates[i]

\* C7: for a candidate without a separator, append_path returns PATH, the
\* separator and the candidate, and prepend_path the candidate, the separator
\* and PATH: the entries of PATH as they were, and the candidate after or
\* before them, whether or not it is a directory or already there.
AdditionPlaced ==
    /\ (op = "append_path" /\ ~HasSep(arg)) =>
          /\ ret = Ok(env.val \o <<Sep>> \o arg)
          /\ split(ret.val) = Append(Entries, arg)
    /\ (op = "prepend_path" /\ ~HasSep(arg)) =>
          /\ ret = Ok(arg \o <<Sep>> \o env.val)
          /\ split(ret.val) = <<arg>> \o Entries

\* append_path added a candidate that validate_addition refuses to a PATH of
\* two entries.
AdditionPlacedWitness ==
    /\ op = "append_path"
    /\ ~HasSep(arg)
    /\ Len(Entries) >= 2
    /\ ~validate_addition(env.val, arg).ok
    /\ ret.ok

\* C10: after a successful append or prepend, dedup of the new PATH is dedup
\* of the old PATH with the candidate after or before it.
ValidAdditionSurvivesDedup ==
    /\ (op = "append" /\ status = "ok") =>
          dedup(split(Printed)) = Append(dedup(Entries), arg)
    /\ (op = "prepend" /\ status = "ok") =>
          dedup(split(Printed)) = <<arg>> \o dedup(Entries)

\* prepend succeeded on a PATH with an entry that has no canonical path and
\* an entry that has one.
ValidAdditionSurvivesDedupWitness ==
    /\ op = "prepend"
    /\ status = "ok"
    /\ \E i, j \in 1..Len(Entries) :
          /\ ~canonicalize(Entries[i]).ok
          /\ Entries[i] # <<>>
          /\ canonicalize(Entries[j]).ok

=============================================================================
